---- MODULE Spec2Model ----
(***************************************************************************)
(* Agent orchestration and admin-intent resolution of backend/server.py:   *)
(* the agent cache (_get_or_create_agent), the category endpoints and the  *)
(* admin assistant (admin_assistant_chat), as an interleaving of request   *)
(* handlers that suspend at every awaited agent or database call.          *)
(*                                                                         *)
(* Python strings are sequences of one-character strings; a character      *)
(* outside ASCII is written "U+XXXX".                                      *)
(***************************************************************************)
EXTENDS Integers, Sequences, FiniteSets, TLC

\* ------------------------------------------------------------------------
\* Python str operations used by the handlers
\* ------------------------------------------------------------------------

UpperLetters ==
    <<"A","B","C","D","E","F","G","H","I","J","K","L","M",
      "N","O","P","Q","R","S","T","U","V","W","X","Y","Z">>

LowerLetters ==
    <<"a","b","c","d","e","f","g","h","i","j","k","l","m",
      "n","o","p","q","r","s","t","u","v","w","x","y","z">>

\* str.lower() on one character
LowerChar(c) ==
    IF \E i \in 1..Len(UpperLetters) : UpperLetters[i] = c
    THEN LowerLetters[CHOOSE i \in 1..Len(UpperLetters) : UpperLetters[i] = c]
    ELSE c

\* str.lower()
Lower(s) == [i \in 1..Len(s) |-> LowerChar(s[i])]

\* str.replace(a, b) for one-character a and b
Replace(s, a, b) == [i \in 1..Len(s) |-> IF s[i] = a THEN b ELSE s[i]]

\* the characters str.strip() removes
Whitespace == {" ", "\t", "\n", "\r"}

SetMin(S) == CHOOSE x \in S : \A y \in S : x <= y

SetMax(S) == CHOOSE x \in S : \A y \in S : y <= x

\* str.strip(chars): drop leading and trailing characters that are in cs
StripChars(s, cs) ==
    LET keep == {i \in 1..Len(s) : s[i] \notin cs}
    IN  IF keep = {} THEN <<>> ELSE SubSeq(s, SetMin(keep), SetMax(keep))

\* str.strip()
Strip(s) == StripChars(s, Whitespace)

\* Python's  sub in s
Contains(sub, s) ==
    \E i \in 0..(Len(s) - Len(sub)) : SubSeq(s, i + 1, i + Len(sub)) = sub

\* code-point order of the characters that occur in category names
CharOrder ==
    <<"\t", "\n", "\r", " ", "\"", "'", ",", "-", ".", "0", "1", "2", "3", "4",
      "5", "6", "7", "8", "9", "A", "B", "G", "_", "a", "b", "c", "d", "e", "g",
      "s", "t">>

Ord(c) == CHOOSE i \in 1..Len(CharOrder) : CharOrder[i] = c

\* a < b for strings, by code point, as the store's sort on "name" compares
RECURSIVE StrLess(_, _)
StrLess(a, b) ==
    IF b = <<>> THEN FALSE
    ELSE IF a = <<>> THEN TRUE
    ELSE IF Head(a) = Head(b) THEN StrLess(Tail(a), Tail(b))
    ELSE Ord(Head(a)) < Ord(Head(b))

\* ------------------------------------------------------------------------
\* String literals of the source
\* ------------------------------------------------------------------------
KwCreate ==
    <<"c","r","e","a","t","e">>

KwCategor ==
    <<"c","a","t","e","g","o","r">>

KwList ==
    <<"l","i","s","t">>

KwShow ==
    <<"s","h","o","w">>

KwWhat ==
    <<"w","h","a","t">>

ExistsPrefix ==
    <<"A"," ","c","a","t","e","g","o","r","y"," ","c","a","l","l","e","d"," ","'">>

ExistsSuffix ==
    <<"'"," ","a","l","r","e","a","d","y"," ","e","x","i","s","t","s","."," ","P","l","e","a",
      "s","e"," ","c","h","o","o","s","e"," ","a"," ","d","i","f","f","e","r","e","n","t"," ",
      "n","a","m","e",".">>

ErrExists ==
    <<"C","a","t","e","g","o","r","y"," ","a","l","r","e","a","d","y"," ","e","x","i","s","t",
      "s">>

Created1Prefix ==
    <<"G","r","e","a","t","!"," ","I","'","v","e"," ","c","r","e","a","t","e","d"," ","t","h",
      "e"," ","c","a","t","e","g","o","r","y"," ","'">>

Created1Suffix ==
    <<"'"," ","f","o","r"," ","y","o","u","."," ">>

DescriptionPrefix ==
    <<"D","e","s","c","r","i","p","t","i","o","n",":"," ">>

RephraseText ==
    <<"I"," ","c","o","u","l","d","n","'","t"," ","u","n","d","e","r","s","t","a","n","d"," ",
      "t","h","e"," ","c","a","t","e","g","o","r","y"," ","n","a","m","e","."," ","C","o","u",
      "l","d"," ","y","o","u"," ","p","l","e","a","s","e"," ","r","e","p","h","r","a","s","e",
      "?"," ","F","o","r"," ","e","x","a","m","p","l","e",":"," ","'","C","r","e","a","t","e",
      " ","a"," ","c","a","t","e","g","o","r","y"," ","c","a","l","l","e","d"," ","T","e","c",
      "h","n","o","l","o","g","y","'">>

ErrParse ==
    <<"C","o","u","l","d"," ","n","o","t"," ","p","a","r","s","e"," ","c","a","t","e","g","o",
      "r","y"," ","n","a","m","e">>

Created2Prefix ==
    <<"D","o","n","e","!"," ","I","'","v","e"," ","c","r","e","a","t","e","d"," ","t","h","e",
      " ","c","a","t","e","g","o","r","y"," ","'">>

Created2Suffix ==
    <<"'"," ","f","o","r"," ","y","o","u",".">>

EmptyListText ==
    <<"Y","o","u"," ","d","o","n","'","t"," ","h","a","v","e"," ","a","n","y"," ","c","a","t",
      "e","g","o","r","i","e","s"," ","y","e","t","."," ","W","o","u","l","d"," ","y","o","u",
      " ","l","i","k","e"," ","m","e"," ","t","o"," ","c","r","e","a","t","e"," ","o","n","e",
      "?">>

ListHeader ==
    <<"H","e","r","e"," ","a","r","e"," ","y","o","u","r"," ","c","a","t","e","g","o","r","i",
      "e","s",":","\n">>

Bullet ==
    <<"U+00E2","U+20AC","U+00A2"," ">>

DetailExists ==
    <<"C","a","t","e","g","o","r","y"," ","w","i","t","h"," ","t","h","i","s"," ","n","a","m",
      "e"," ","a","l","r","e","a","d","y"," ","e","x","i","s","t","s">>

DetailUnknownBogus ==
    <<"U","n","k","n","o","w","n"," ","a","g","e","n","t"," ","t","y","p","e"," ","'","b","o",
      "g","u","s","'">>

SummaryPromptPrefix ==
    <<"S","u","m","m","a","r","i","z","e"," ","t","h","e"," ","f","o","l","l","o","w","i","n",
      "g"," ","a","r","t","i","c","l","e"," ","i","n"," ","2","-","3"," ","c","o","n","c","i",
      "s","e"," ","s","e","n","t","e","n","c","e","s",":","\n","\n">>

SummaryFailed ==
    <<"S","u","m","m","a","r","y"," ","g","e","n","e","r","a","t","i","o","n"," ","f","a","i",
      "l","e","d",".">>

SummaryNotAvailable ==
    <<"S","u","m","m","a","r","y"," ","n","o","t"," ","a","v","a","i","l","a","b","l","e",".">>

ApologyText ==
    <<"S","o","r","r","y",","," ","I"," ","e","n","c","o","u","n","t","e","r","e","d"," ","a",
      "n"," ","e","r","r","o","r","."," ","P","l","e","a","s","e"," ","t","r","y"," ","a","g",
      "a","i","n",".">>

\* ------------------------------------------------------------------------
\* Inputs: administrator messages, agent outputs, exception descriptions
\* ------------------------------------------------------------------------

\* CreateCategory
MsgCreate ==
    <<"C","r","e","a","t","e"," ","c","a","t","e","g","o","r","y">>

\* CreateCategory although a listing verb is present
MsgShowCreate ==
    <<"s","h","o","w"," ","h","o","w"," ","t","o"," ","c","r","e","a","t","e"," ","c","a","t",
      "e","g","o","r","i","e","s">>

\* ListCategories
MsgList ==
    <<"l","i","s","t"," ","c","a","t","e","g","o","r","i","e","s">>

\* ListCategories, upper-case letters
MsgWhat ==
    <<"W","h","a","t"," ","C","a","t","e","g","o","r","i","e","s">>

\* General: no category noun
MsgCreateOnly ==
    <<"c","r","e","a","t","e"," ","a","r","t","i","c","l","e">>

\* General
MsgHi ==
    <<"h","i">>

Messages == {MsgCreate, MsgShowCreate, MsgList, MsgWhat, MsgCreateOnly, MsgHi}

NameAb ==
    <<"A","b">>

NameLowerAb ==
    <<"a","b">>

NameASpaceB ==
    <<"a"," ","b">>

NameAUnderB ==
    <<"a","_","b">>

NamePaddedASpaceB ==
    <<" ","a"," ","b"," ">>

DescD ==
    <<"d">>

\* stage-1 output: an object with both fields
JsonAb ==
    <<"{","\"","n","a","m","e","\"",":","\"","A","b","\"",",","\"","d","e","s","c","r","i","p",
      "t","i","o","n","\"",":","\"","d","\"","}">>

\* an object whose name carries surrounding blanks, no description
JsonPadded ==
    <<" ","{","\"","n","a","m","e","\"",":","\""," ","a"," ","b"," ","\"","}","\n">>

JsonUnder ==
    <<"{","\"","n","a","m","e","\"",":","\"","a","_","b","\"",",","\"","d","e","s","c","r","i",
      "p","t","i","o","n","\"",":","\"","\"","}">>

\* an object without a name field
JsonNoName ==
    <<"{","\"","d","e","s","c","r","i","p","t","i","o","n","\"",":","\"","d","\"","}">>

\* an object whose name is not a string
JsonNullName ==
    <<"{","\"","n","a","m","e","\"",":","n","u","l","l","}">>

\* valid JSON that is not an object
JsonArray ==
    <<"[","\"","A","b","\"","]">>

\* plain text, not JSON
TextAb ==
    <<"A","b">>

\* stage-2 output wrapped in blanks, quotes and a period
TextQuoted ==
    <<" ","\"","a"," ","b","\"","."," ">>

TextLowerAb ==
    <<"a","b">>

\* not blank, but empty once quotes, periods and commas are stripped
TextDot ==
    <<".">>

TextBlank ==
    <<" "," ">>

\* a General answer
TextOk ==
    <<"o","k">>

\* AgentResult.error of a failed execution
ErrAgentFailed ==
    <<"a","g","e","n","t"," ","f","a","i","l","e","d">>

\* str(exc) of an exception raised by execute
DescAgentRaised ==
    <<"c","o","n","n","e","c","t","i","o","n"," ","r","e","s","e","t">>

\* str(exc) of an exception raised by a database call
DescStoreRaised ==
    <<"s","t","o","r","e"," ","u","n","r","e","a","c","h","a","b","l","e">>

DescNoneStrip ==
    <<"'","N","o","n","e","T","y","p","e","'"," ","o","b","j","e","c","t"," ","h","a","s"," ",
      "n","o"," ","a","t","t","r","i","b","u","t","e"," ","'","s","t","r","i","p","'">>

DescListGet ==
    <<"'","l","i","s","t","'"," ","o","b","j","e","c","t"," ","h","a","s"," ","n","o"," ","a",
      "t","t","r","i","b","u","t","e"," ","'","g","e","t","'">>

\* ------------------------------------------------------------------------
\* Bounds
\* ------------------------------------------------------------------------

\* requests served in one behaviour
MaxRequests == 2

\* largest category store the listing specification starts from
MaxListed == 102

\* the handlers that may be in flight at the same time
Reqs == {1, 2}

\* Optional[...] values: None, or one value
None == <<>>

Some(x) == <<x>>

\* ------------------------------------------------------------------------
\* Agents (ai_agents.agents is an external package; only AgentResult is read)
\* ------------------------------------------------------------------------

AgentTypes == {"chat", "search"}

\* type tags a /chat client may send
AgentTags == {"chat", "search", "bogus"}

AgentResult(success, content, error) ==
    [raises |-> FALSE, success |-> success, content |-> content, error |-> error,
     desc |-> <<>>]

\* execute() raising instead of returning
AgentRaises(desc) ==
    [raises |-> TRUE, success |-> FALSE, content |-> <<>>, error |-> None, desc |-> desc]

AgentFailure == AgentResult(FALSE, <<>>, Some(ErrAgentFailed))

\* what execute(extraction_prompt) may produce
Stage1Outcomes ==
    {AgentRaises(DescAgentRaised), AgentFailure}
    \cup {AgentResult(TRUE, c, None) :
            c \in {JsonAb, JsonPadded, JsonUnder, JsonNoName, JsonNullName, JsonArray, TextAb}}

\* what execute(simple_prompt) may produce
Stage2Outcomes ==
    {AgentRaises(DescAgentRaised), AgentFailure}
    \cup {AgentResult(TRUE, c, None) : c \in {TextAb, TextQuoted, TextLowerAb, TextDot, TextBlank}}

\* what execute(enhanced_message) and the /chat execute may produce
GeneralOutcomes ==
    {AgentRaises(DescAgentRaised), AgentFailure, AgentResult(TRUE, TextOk, None)}

\* json.loads, tabulated on the texts the agent produces here
JsonStr(s) == [type |-> "str", s |-> s]

JsonNull == [type |-> "null", s |-> <<>>]

JsonLoads(text) ==
    CASE text = JsonAb ->
            [ok |-> TRUE, type |-> "object",
             fields |-> [name |-> JsonStr(NameAb), description |-> JsonStr(DescD)]]
      [] text = Strip(JsonPadded) ->
            [ok |-> TRUE, type |-> "object", fields |-> [name |-> JsonStr(NamePaddedASpaceB)]]
      [] text = JsonUnder ->
            [ok |-> TRUE, type |-> "object",
             fields |-> [name |-> JsonStr(NameAUnderB), description |-> JsonStr(<<>>)]]
      [] text = JsonNoName ->
            [ok |-> TRUE, type |-> "object", fields |-> [description |-> JsonStr(DescD)]]
      [] text = JsonNullName ->
            [ok |-> TRUE, type |-> "object", fields |-> [name |-> JsonNull]]
      [] text = JsonArray ->
            [ok |-> TRUE, type |-> "list"]
      [] OTHER ->
            [ok |-> FALSE, type |-> "JSONDecodeError"]

\* dict.get(key, "")
DictGet(fields, key) == IF key \in DOMAIN fields THEN fields[key] ELSE JsonStr(<<>>)

Extracted(outcome, name, description, desc) ==
    [outcome |-> outcome, name |-> name, description |-> description, desc |-> desc]

\* ExtractStage1 whose fallback catches every exception, not only JSONDecodeError
ExtractStage1_CatchAll(content) ==
    LET doc == JsonLoads(Strip(content))
    IN  IF ~doc.ok \/ doc.type # "object" THEN Extracted("JSONDecodeError", <<>>, <<>>, <<>>)
        ELSE LET n == DictGet(doc.fields, "name")
                 d == DictGet(doc.fields, "description")
             IN  IF n.type # "str" \/ d.type # "str"
                 THEN Extracted("JSONDecodeError", <<>>, <<>>, <<>>)
                 ELSE Extracted("ok", Strip(n.s), Strip(d.s), <<>>)

\* json.loads(content.strip()), then .get("name", "").strip() and
\* .get("description", "").strip()
ExtractStage1(content) ==
    LET doc == JsonLoads(Strip(content))
    IN  IF ~doc.ok THEN Extracted("JSONDecodeError", <<>>, <<>>, <<>>)
        ELSE IF doc.type # "object" THEN Extracted("raise", <<>>, <<>>, DescListGet)
        ELSE LET n == DictGet(doc.fields, "name")
                 d == DictGet(doc.fields, "description")
             IN  IF n.type # "str" \/ d.type # "str"
                 THEN Extracted("raise", <<>>, <<>>, DescNoneStrip)
                 ELSE Extracted("ok", Strip(n.s), Strip(d.s), <<>>)

\* simple_result.content.strip().strip('".,')
ExtractStage2(content) == StripChars(Strip(content), {"\"", ".", ","})

\* ------------------------------------------------------------------------
\* Categories
\* ------------------------------------------------------------------------

\* SlugDirect that leaves underscores in the slug
SlugDirect_KeepsUnderscore(name) == Replace(Lower(name), " ", "-")

\* create_category: name.lower().replace(" ", "-").replace("_", "-")
SlugDirect(name) == Replace(Replace(Lower(name), " ", "-"), "_", "-")

\* SlugStage1 that leaves underscores in the slug
SlugStage1_KeepsUnderscore(name) == Replace(Lower(name), " ", "-")

\* admin_assistant_chat, stage 1
SlugStage1(name) == Replace(Replace(Lower(name), " ", "-"), "_", "-")

\* admin_assistant_chat, stage 2
SlugStage2(name) == Replace(Replace(Lower(name), " ", "-"), "_", "-")

CategoryCreate(name, description) == [name |-> name, description |-> description]

\* Category(**category_input.model_dump(), slug=slug); id stands for the uuid4,
\* created_at is left out (no handler reads it)
Category(id, category_input, slug) ==
    [id |-> id, name |-> category_input.name, slug |-> slug,
     description |-> category_input.description]

\* FindOne that matches the slug against the name field
FindOne_ByName(docs, slug) == \E i \in 1..Len(docs) : docs[i].name = slug

\* db.categories.find_one({"slug": slug}) finds a document
FindOne(docs, slug) == \E i \in 1..Len(docs) : docs[i].slug = slug

\* docs in ascending order of name; documents with equal names stay in
\* insertion order
SortByName(docs) ==
    LET n == Len(docs)
        before(j, i) ==
            \/ StrLess(docs[j].name, docs[i].name)
            \/ docs[j].name = docs[i].name /\ j < i
        ranked == {<<1 + Cardinality({j \in 1..n : before(j, i)}), i>> : i \in 1..n}
    IN  [k \in 1..n |-> docs[(CHOOSE p \in ranked : p[1] = k)[2]]]

\* the length given to to_list
ToListLength == 100

\* FindSorted without the sort: the first documents in insertion order
FindSorted_Unsorted(docs) ==
    IF Len(docs) <= ToListLength THEN docs ELSE SubSeq(docs, 1, ToListLength)

\* db.categories.find().sort("name", 1).to_list(100)
FindSorted(docs) ==
    LET sorted == SortByName(docs)
    IN  IF Len(sorted) <= ToListLength THEN sorted ELSE SubSeq(sorted, 1, ToListLength)

\* "\n".join([f"<bullet> {cat['name']}" for cat in categories]), joined by halves
RECURSIVE CategoryList(_)
CategoryList(categories) ==
    IF categories = <<>> THEN <<>>
    ELSE IF Len(categories) = 1 THEN Bullet \o categories[1].name
    ELSE LET half == Len(categories) \div 2
         IN  CategoryList(SubSeq(categories, 1, half)) \o <<"\n">>
                 \o CategoryList(SubSeq(categories, half + 1, Len(categories)))

\* ------------------------------------------------------------------------
\* Responses
\* ------------------------------------------------------------------------

Response(kind, success, text, action_taken, action_result, error, status) ==
    [kind |-> kind, success |-> success, response |-> text, action_taken |-> action_taken,
     action_result |-> action_result, error |-> error, status |-> status]

\* no response yet
NoResponse == Response("pending", FALSE, <<>>, None, None, None, 0)

AdminAssistantResponse(success, text, action_taken, action_result, error) ==
    Response("AdminAssistantResponse", success, text, action_taken, action_result, error, 200)

\* the handler ran off its end: it returned None, which is no AdminAssistantResponse
ReturnedNone == Response("None", FALSE, <<>>, None, None, None, 500)

\* raise HTTPException(status_code=status, detail=detail)
HTTPException(status, detail) == Response("HTTPException", FALSE, detail, None, None, None, status)

\* ExceptResponse that shows the exception to the administrator
ExceptResponse_LeaksDescription(desc) ==
    AdminAssistantResponse(FALSE, ApologyText \o <<" ">> \o desc, None, None, Some(desc))

\* the except clause of admin_assistant_chat
ExceptResponse(desc) == AdminAssistantResponse(FALSE, ApologyText, None, None, Some(desc))

ExistsResponse(category_input) ==
    AdminAssistantResponse(FALSE, ExistsPrefix \o category_input.name \o ExistsSuffix,
                           None, None, Some(ErrExists))

Created1Response(category) ==
    AdminAssistantResponse(
        TRUE,
        Created1Prefix \o category.name \o Created1Suffix
            \o (IF category.description # <<>>
                THEN DescriptionPrefix \o category.description ELSE <<>>),
        Some("create_category"), Some([category |-> category]), None)

Created2Response(category) ==
    AdminAssistantResponse(TRUE, Created2Prefix \o category.name \o Created2Suffix,
                           Some("create_category"), Some([category |-> category]), None)

RephraseResponse == AdminAssistantResponse(FALSE, RephraseText, None, None, Some(ErrParse))

ListResponse(categories) ==
    IF categories = <<>>
    THEN AdminAssistantResponse(TRUE, EmptyListText, Some("list_categories"),
                                Some([categories |-> <<>>, count |-> 0]), None)
    ELSE AdminAssistantResponse(TRUE, ListHeader \o CategoryList(categories),
                                Some("list_categories"),
                                Some([count |-> Len(categories)]), None)

GeneralResponse(result) ==
    AdminAssistantResponse(result.success, result.content, None, None, result.error)

\* ------------------------------------------------------------------------
\* State
\* ------------------------------------------------------------------------

VARIABLES
    store,        \* db.categories: the category documents, in insertion order
    next_id,      \* the next fresh Category id
    agent_cache,  \* app.state.agent_cache: agent type -> instance (0: no entry)
    constructed,  \* per agent type, how many instances were constructed so far
    req,          \* the request handlers: position, locals, response and log
    started,      \* requests accepted so far
    checked_len,  \* per stored document, the store's length at its existence check
    articles      \* db.articles: the article documents, in insertion order

vars == <<store, next_id, agent_cache, constructed, req, started, checked_len, articles>>

\* a handler slot with no request in it; message is a local that is dropped
\* once the handler does not read it again
IdleReq ==
    [pc |-> "idle", handler |-> "none", message |-> <<>>, intent |-> "none",
     agent |-> 0, category_input |-> None, slug |-> <<>>, category |-> None,
     existing |-> "unchecked", response |-> NoResponse,
     prompts |-> <<>>, results |-> <<>>, inserts |-> 0, raised |-> None, seen |-> None,
     content |-> <<>>, prompt_text |-> <<>>, summary |-> <<>>]

\* an arriving request is taken up by the first free handler
Free(r) ==
    /\ req[r].pc = "idle"
    /\ \A q \in Reqs : q < r => req[q].pc # "idle"

\* the state after lifespan start-up: empty agent cache, and here an empty store
Init ==
    /\ store = <<>>
    /\ next_id = 1
    /\ agent_cache = [t \in AgentTags |-> 0]
    /\ constructed = [t \in AgentTypes |-> 0]
    /\ req = [r \in Reqs |-> IdleReq]
    /\ started = 0
    /\ checked_len = <<>>
    /\ articles = <<>>

\* ------------------------------------------------------------------------
\* Agent registry
\* ------------------------------------------------------------------------

\* get_or_create_agent that constructs an instance on every call
get_or_create_agent_AlwaysConstructs(cache, made, agent_type) ==
    IF agent_type \in AgentTypes
    THEN LET instance == made["chat"] + made["search"] + 1
         IN  [raised |-> FALSE, agent |-> instance,
              cache |-> [cache EXCEPT ![agent_type] = instance],
              made |-> [made EXCEPT ![agent_type] = @ + 1]]
    ELSE [raised |-> TRUE, agent |-> 0, cache |-> cache, made |-> made]

\* _get_or_create_agent has no await inside it, so it runs without suspension.
\* The result: the instance returned (or the HTTPException raised), the cache
\* and the construction counts afterwards.
get_or_create_agent(cache, made, agent_type) ==
    IF cache[agent_type] # 0
    THEN [raised |-> FALSE, agent |-> cache[agent_type], cache |-> cache, made |-> made]
    ELSE IF agent_type \in AgentTypes
    THEN LET instance == made["chat"] + made["search"] + 1
         IN  [raised |-> FALSE, agent |-> instance,
              cache |-> [cache EXCEPT ![agent_type] = instance],
              made |-> [made EXCEPT ![agent_type] = @ + 1]]
    ELSE [raised |-> TRUE, agent |-> 0, cache |-> cache, made |-> made]

\* ------------------------------------------------------------------------
\* POST /admin/assistant/chat
\* ------------------------------------------------------------------------

\* Intent with the listing test ahead of the creation test
Intent_ListFirst(msg) ==
    LET message == Lower(msg)
    IN  IF /\ \/ Contains(KwList, message)
              \/ Contains(KwShow, message)
              \/ Contains(KwWhat, message)
           /\ Contains(KwCategor, message)
        THEN "ListCategories"
        ELSE IF Contains(KwCreate, message) /\ Contains(KwCategor, message)
        THEN "CreateCategory"
        ELSE "General"

\* the if / elif / else chain over message = assistant_request.message.lower()
Intent(msg) ==
    LET message == Lower(msg)
    IN  IF Contains(KwCreate, message) /\ Contains(KwCategor, message)
        THEN "CreateCategory"
        ELSE IF /\ \/ Contains(KwList, message)
                   \/ Contains(KwShow, message)
                   \/ Contains(KwWhat, message)
                /\ Contains(KwCategor, message)
        THEN "ListCategories"
        ELSE "General"

\* the request arrives; the handler runs to its first suspending await
\* (app.state.db is set by lifespan, so _ensure_db returns)
admin_assistant_chat(r, msg) ==
    /\ Free(r)
    /\ started < MaxRequests
    /\ started' = started + 1
    /\ UNCHANGED articles
    /\ UNCHANGED <<store, checked_len, next_id>>
    /\ LET intent == Intent(msg)
           got == get_or_create_agent(agent_cache, constructed, "chat")
           base == [IdleReq EXCEPT !.handler = "admin_assistant_chat",
                                   !.message = msg, !.intent = intent]
       IN  CASE intent = "CreateCategory" ->
                  /\ agent_cache' = got.cache
                  /\ constructed' = got.made
                  /\ req' = [req EXCEPT ![r] =
                               [base EXCEPT !.pc = "stage1", !.agent = got.agent,
                                            !.prompts = <<"extraction_prompt">>]]
             [] intent = "ListCategories" ->
                  /\ UNCHANGED <<agent_cache, constructed>>
                  /\ req' = [req EXCEPT ![r] = [base EXCEPT !.pc = "list"]]
             [] OTHER ->
                  /\ agent_cache' = got.cache
                  /\ constructed' = got.made
                  /\ req' = [req EXCEPT ![r] =
                               [base EXCEPT !.pc = "general", !.agent = got.agent,
                                            !.prompts = <<"enhanced_message">>]]

\* the handler leaves through the except clause
Except(r, desc, results) ==
    req' = [req EXCEPT ![r] =
              [@ EXCEPT !.pc = "done", !.message = <<>>, !.results = results,
                        !.raised = Some(desc), !.response = ExceptResponse(desc)]]

\* execute(extraction_prompt) completes; the handler runs to its next await
Stage1Reply(r, result) ==
    /\ req[r].pc = "stage1"
    /\ UNCHANGED <<store, checked_len, next_id, agent_cache, constructed, started, articles>>
    /\ LET results == Append(req[r].results, result)
       IN  IF result.raises THEN Except(r, result.desc, results)
           ELSE IF ~result.success
           THEN req' = [req EXCEPT ![r] =
                          [@ EXCEPT !.pc = "done", !.message = <<>>, !.results = results,
                                    !.response = ReturnedNone]]
           ELSE LET x == ExtractStage1(result.content)
                IN  CASE x.outcome = "JSONDecodeError" ->
                           req' = [req EXCEPT ![r] =
                                     [@ EXCEPT !.pc = "stage2", !.message = <<>>,
                                               !.results = results,
                                               !.prompts = Append(@, "simple_prompt")]]
                      [] x.outcome = "raise" -> Except(r, x.desc, results)
                      [] OTHER ->
                           LET category_input == CategoryCreate(x.name, x.description)
                           IN  req' = [req EXCEPT ![r] =
                                         [@ EXCEPT !.pc = "find1", !.message = <<>>,
                                                   !.results = results,
                                                   !.category_input = Some(category_input),
                                                   !.slug = SlugStage1(category_input.name)]]

\* find_one completes (stage 1); on no match the handler goes on to insert_one
Find1Reply(r, db_ok) ==
    /\ req[r].pc = "find1"
    /\ UNCHANGED <<store, checked_len, agent_cache, constructed, started, articles>>
    /\ IF ~db_ok
       THEN /\ Except(r, DescStoreRaised, req[r].results)
            /\ UNCHANGED next_id
       ELSE IF FindOne(store, req[r].slug)
       THEN /\ req' = [req EXCEPT ![r] =
                         [@ EXCEPT !.pc = "done", !.existing = "found", !.seen = Some(store),
                                   !.response = ExistsResponse(req[r].category_input[1])]]
            /\ UNCHANGED next_id
       ELSE /\ req' = [req EXCEPT ![r] =
                         [@ EXCEPT !.pc = "insert1", !.existing = "absent",
                                   !.seen = Some(store),
                                   !.category =
                                       Some(Category(next_id, req[r].category_input[1],
                                                     req[r].slug))]]
            /\ next_id' = next_id + 1

\* Insert1Reply that, after the insert, goes on to the stage-2 fallback
Insert1Reply_ThenFallsBack(r, db_ok) ==
    /\ req[r].pc = "insert1"
    /\ UNCHANGED <<next_id, agent_cache, constructed, started, articles>>
    /\ store' = Append(store, req[r].category[1])
    /\ checked_len' = Append(checked_len, Len(req[r].seen[1]))
    /\ req' = [req EXCEPT ![r] =
                 [@ EXCEPT !.pc = "stage2", !.inserts = @ + 1,
                           !.prompts = Append(@, "simple_prompt")]]

\* insert_one completes (stage 1)
Insert1Reply(r, db_ok) ==
    /\ req[r].pc = "insert1"
    /\ UNCHANGED <<next_id, agent_cache, constructed, started, articles>>
    /\ IF ~db_ok
       THEN /\ Except(r, DescStoreRaised, req[r].results)
            /\ UNCHANGED <<store, checked_len>>
       ELSE /\ store' = Append(store, req[r].category[1])
            /\ checked_len' = Append(checked_len, Len(req[r].seen[1]))
            /\ req' = [req EXCEPT ![r] =
                         [@ EXCEPT !.pc = "done", !.inserts = @ + 1,
                                   !.response = Created1Response(req[r].category[1])]]

\* execute(simple_prompt) completes
Stage2Reply(r, result) ==
    /\ req[r].pc = "stage2"
    /\ UNCHANGED <<store, checked_len, next_id, agent_cache, constructed, started, articles>>
    /\ LET results == Append(req[r].results, result)
       IN  IF result.raises THEN Except(r, result.desc, results)
           ELSE IF ~result.success \/ Strip(result.content) = <<>>
           THEN req' = [req EXCEPT ![r] =
                          [@ EXCEPT !.pc = "done", !.results = results,
                                    !.response = RephraseResponse]]
           ELSE LET category_input == CategoryCreate(ExtractStage2(result.content), <<>>)
                IN  req' = [req EXCEPT ![r] =
                              [@ EXCEPT !.pc = "find2", !.results = results,
                                        !.category_input = Some(category_input),
                                        !.slug = SlugStage2(category_input.name)]]

\* Find2Reply that, on a match, stores the category again before it answers
\* "already exists"
Find2Reply_WritesOnMatch(r, db_ok) ==
    /\ req[r].pc = "find2"
    /\ UNCHANGED <<agent_cache, constructed, started, articles>>
    /\ IF ~db_ok
       THEN /\ Except(r, DescStoreRaised, req[r].results)
            /\ UNCHANGED <<store, checked_len, next_id>>
       ELSE IF FindOne(store, req[r].slug)
       THEN /\ req' = [req EXCEPT ![r] =
                         [@ EXCEPT !.pc = "done", !.existing = "found", !.seen = Some(store),
                                   !.response = ExistsResponse(req[r].category_input[1])]]
            /\ store' = Append(store, Category(next_id, req[r].category_input[1],
                                               req[r].slug))
            /\ checked_len' = Append(checked_len, Len(store))
            /\ next_id' = next_id + 1
       ELSE /\ req' = [req EXCEPT ![r] =
                         [@ EXCEPT !.pc = "insert2", !.existing = "absent",
                                   !.seen = Some(store),
                                   !.category =
                                       Some(Category(next_id, req[r].category_input[1],
                                                     req[r].slug))]]
            /\ next_id' = next_id + 1
            /\ UNCHANGED <<store, checked_len>>

\* find_one completes (stage 2)
Find2Reply(r, db_ok) ==
    /\ req[r].pc = "find2"
    /\ UNCHANGED <<store, checked_len, agent_cache, constructed, started, articles>>
    /\ IF ~db_ok
       THEN /\ Except(r, DescStoreRaised, req[r].results)
            /\ UNCHANGED next_id
       ELSE IF FindOne(store, req[r].slug)
       THEN /\ req' = [req EXCEPT ![r] =
                         [@ EXCEPT !.pc = "done", !.existing = "found", !.seen = Some(store),
                                   !.response = ExistsResponse(req[r].category_input[1])]]
            /\ UNCHANGED next_id
       ELSE /\ req' = [req EXCEPT ![r] =
                         [@ EXCEPT !.pc = "insert2", !.existing = "absent",
                                   !.seen = Some(store),
                                   !.category =
                                       Some(Category(next_id, req[r].category_input[1],
                                                     req[r].slug))]]
            /\ next_id' = next_id + 1

\* insert_one completes (stage 2)
Insert2Reply(r, db_ok) ==
    /\ req[r].pc = "insert2"
    /\ UNCHANGED <<next_id, agent_cache, constructed, started, articles>>
    /\ IF ~db_ok
       THEN /\ Except(r, DescStoreRaised, req[r].results)
            /\ UNCHANGED <<store, checked_len>>
       ELSE /\ store' = Append(store, req[r].category[1])
            /\ checked_len' = Append(checked_len, Len(req[r].seen[1]))
            /\ req' = [req EXCEPT ![r] =
                         [@ EXCEPT !.pc = "done", !.inserts = @ + 1,
                                   !.response = Created2Response(req[r].category[1])]]

\* find().sort("name", 1).to_list(100) completes
ListReply(r, db_ok) ==
    /\ req[r].pc = "list"
    /\ UNCHANGED <<store, checked_len, next_id, agent_cache, constructed, started, articles>>
    /\ IF ~db_ok
       THEN Except(r, DescStoreRaised, req[r].results)
       ELSE req' = [req EXCEPT ![r] =
                      [@ EXCEPT !.pc = "done", !.message = <<>>, !.seen = Some(store),
                                !.response = ListResponse(FindSorted(store))]]

\* execute(enhanced_message) completes
GeneralReply(r, result) ==
    /\ req[r].pc = "general"
    /\ UNCHANGED <<store, checked_len, next_id, agent_cache, constructed, started, articles>>
    /\ LET results == Append(req[r].results, result)
       IN  IF result.raises THEN Except(r, result.desc, results)
           ELSE req' = [req EXCEPT ![r] =
                          [@ EXCEPT !.pc = "done", !.message = <<>>, !.results = results,
                                    !.response = GeneralResponse(result)]]

\* the response (or the failure) goes out; the handler slot is free again
Deliver(r) ==
    /\ req[r].pc = "done"
    /\ req' = [req EXCEPT ![r] = IdleReq]
    /\ UNCHANGED <<store, checked_len, next_id, agent_cache, constructed, started, articles>>

\* ------------------------------------------------------------------------
\* POST /categories
\* ------------------------------------------------------------------------

\* names a client of POST /categories submits
DirectNames == {NameAb, NameLowerAb, NameAUnderB}

\* the request arrives; the handler computes the slug and awaits find_one
create_category(r, name) ==
    /\ Free(r)
    /\ started < MaxRequests
    /\ started' = started + 1
    /\ UNCHANGED articles
    /\ req' = [req EXCEPT ![r] =
                 [IdleReq EXCEPT !.pc = "direct_find", !.handler = "create_category",
                                 !.category_input = Some(CategoryCreate(name, <<>>)),
                                 !.slug = SlugDirect(name)]]
    /\ UNCHANGED <<store, checked_len, next_id, agent_cache, constructed>>

\* an exception that no handler catches: the framework answers HTTP 500
Unhandled(desc) == Response("Exception", FALSE, desc, None, None, None, 500)

\* find_one completes; on a match the handler raises HTTP 400
DirectFindReply(r, db_ok) ==
    /\ req[r].pc = "direct_find"
    /\ UNCHANGED <<store, checked_len, agent_cache, constructed, started, articles>>
    /\ IF ~db_ok
       THEN /\ req' = [req EXCEPT ![r] =
                         [@ EXCEPT !.pc = "done", !.raised = Some(DescStoreRaised),
                                   !.response = Unhandled(DescStoreRaised)]]
            /\ UNCHANGED next_id
       ELSE IF FindOne(store, req[r].slug)
       THEN /\ req' = [req EXCEPT ![r] =
                         [@ EXCEPT !.pc = "done", !.existing = "found", !.seen = Some(store),
                                   !.response = HTTPException(400, DetailExists)]]
            /\ UNCHANGED next_id
       ELSE /\ req' = [req EXCEPT ![r] =
                         [@ EXCEPT !.pc = "direct_insert", !.existing = "absent",
                                   !.seen = Some(store),
                                   !.category =
                                       Some(Category(next_id, req[r].category_input[1],
                                                     req[r].slug))]]
            /\ next_id' = next_id + 1

\* insert_one completes; the handler returns the category
DirectInsertReply(r, db_ok) ==
    /\ req[r].pc = "direct_insert"
    /\ UNCHANGED <<next_id, agent_cache, constructed, started, articles>>
    /\ IF ~db_ok
       THEN /\ req' = [req EXCEPT ![r] =
                         [@ EXCEPT !.pc = "done", !.raised = Some(DescStoreRaised),
                                   !.response = Unhandled(DescStoreRaised)]]
            /\ UNCHANGED <<store, checked_len>>
       ELSE /\ store' = Append(store, req[r].category[1])
            /\ checked_len' = Append(checked_len, Len(req[r].seen[1]))
            /\ req' = [req EXCEPT ![r] =
                         [@ EXCEPT !.pc = "done", !.inserts = @ + 1,
                                   !.response =
                                       Response("Category", TRUE, <<>>, None,
                                                Some([category |-> req[r].category[1]]),
                                                None, 200)]]

\* ------------------------------------------------------------------------
\* POST /chat
\* ------------------------------------------------------------------------

\* chat_with_agent without its "except HTTPException: raise" clause: the general
\* handler turns the registry's error into a ChatResponse
chat_with_agent_SwallowsHTTPException(r, agent_type) ==
    /\ Free(r)
    /\ started < MaxRequests
    /\ started' = started + 1
    /\ UNCHANGED articles
    /\ UNCHANGED <<store, checked_len, next_id>>
    /\ LET got == get_or_create_agent(agent_cache, constructed, agent_type)
           base == [IdleReq EXCEPT !.handler = "chat_with_agent", !.intent = agent_type]
       IN  /\ agent_cache' = got.cache
           /\ constructed' = got.made
           /\ IF got.raised
              THEN req' = [req EXCEPT ![r] =
                             [base EXCEPT !.pc = "done",
                                          !.response =
                                              Response("ChatResponse", FALSE, <<>>, None, None,
                                                       Some(DetailUnknownBogus), 200)]]
              ELSE req' = [req EXCEPT ![r] =
                             [base EXCEPT !.pc = "chat", !.agent = got.agent,
                                          !.prompts = <<"message">>]]

\* the request arrives; the handler obtains the agent and awaits execute.
\* "bogus" is the one unknown tag; capabilities and metadata of the
\* ChatResponse come from the agent and are left out
chat_with_agent(r, agent_type) ==
    /\ Free(r)
    /\ started < MaxRequests
    /\ started' = started + 1
    /\ UNCHANGED articles
    /\ UNCHANGED <<store, checked_len, next_id>>
    /\ LET got == get_or_create_agent(agent_cache, constructed, agent_type)
           base == [IdleReq EXCEPT !.handler = "chat_with_agent", !.intent = agent_type]
       IN  /\ agent_cache' = got.cache
           /\ constructed' = got.made
           /\ IF got.raised
              THEN req' = [req EXCEPT ![r] =
                             [base EXCEPT !.pc = "done",
                                          !.response = HTTPException(400, DetailUnknownBogus)]]
              ELSE req' = [req EXCEPT ![r] =
                             [base EXCEPT !.pc = "chat", !.agent = got.agent,
                                          !.prompts = <<"message">>]]

\* execute(chat_request.message) completes
ChatReply(r, result) ==
    /\ req[r].pc = "chat"
    /\ UNCHANGED <<store, checked_len, next_id, agent_cache, constructed, started, articles>>
    /\ LET results == Append(req[r].results, result)
       IN  req' = [req EXCEPT ![r] =
                     [@ EXCEPT !.pc = "done", !.results = results,
                               !.response =
                                   IF result.raises
                                   THEN Response("ChatResponse", FALSE, <<>>, None, None,
                                                 Some(result.desc), 200)
                                   ELSE Response("ChatResponse", result.success,
                                                 result.content, None, None,
                                                 result.error, 200)]]

\* ------------------------------------------------------------------------
\* Specifications
\* ------------------------------------------------------------------------

Next ==
    \E r \in Reqs :
        \/ \E msg \in Messages : admin_assistant_chat(r, msg)
        \/ \E result \in Stage1Outcomes : Stage1Reply(r, result)
        \/ \E db_ok \in BOOLEAN : Find1Reply(r, db_ok)
        \/ \E db_ok \in BOOLEAN : Insert1Reply(r, db_ok)
        \/ \E result \in Stage2Outcomes : Stage2Reply(r, result)
        \/ \E db_ok \in BOOLEAN : Find2Reply(r, db_ok)
        \/ \E db_ok \in BOOLEAN : Insert2Reply(r, db_ok)
        \/ \E db_ok \in BOOLEAN : ListReply(r, db_ok)
        \/ \E result \in GeneralOutcomes : GeneralReply(r, result)
        \/ \E name \in DirectNames : create_category(r, name)
        \/ \E db_ok \in BOOLEAN : DirectFindReply(r, db_ok)
        \/ \E db_ok \in BOOLEAN : DirectInsertReply(r, db_ok)
        \/ \E agent_type \in AgentTags : chat_with_agent(r, agent_type)
        \/ \E result \in GeneralOutcomes : ChatReply(r, result)
        \/ Deliver(r)

Spec == Init /\ [][Next]_vars

\* ------------------------------------------------------------------------
\* Requests handled one at a time
\* ------------------------------------------------------------------------

\* no handler is between its arrival and its response
NoneInFlight == \A q \in Reqs : req[q].pc = "idle"

\* Next with a request arriving only when no other is in flight
NextSequential ==
    \E r \in Reqs :
        \/ NoneInFlight /\ \E msg \in Messages : admin_assistant_chat(r, msg)
        \/ \E result \in Stage1Outcomes : Stage1Reply(r, result)
        \/ \E db_ok \in BOOLEAN : Find1Reply(r, db_ok)
        \/ \E db_ok \in BOOLEAN : Insert1Reply(r, db_ok)
        \/ \E result \in Stage2Outcomes : Stage2Reply(r, result)
        \/ \E db_ok \in BOOLEAN : Find2Reply(r, db_ok)
        \/ \E db_ok \in BOOLEAN : Insert2Reply(r, db_ok)
        \/ \E db_ok \in BOOLEAN : ListReply(r, db_ok)
        \/ \E result \in GeneralOutcomes : GeneralReply(r, result)
        \/ NoneInFlight /\ \E name \in DirectNames : create_category(r, name)
        \/ \E db_ok \in BOOLEAN : DirectFindReply(r, db_ok)
        \/ \E db_ok \in BOOLEAN : DirectInsertReply(r, db_ok)
        \/ NoneInFlight /\ \E agent_type \in AgentTags : chat_with_agent(r, agent_type)
        \/ \E result \in GeneralOutcomes : ChatReply(r, result)
        \/ Deliver(r)

SpecSequential == Init /\ [][NextSequential]_vars

\* ------------------------------------------------------------------------
\* Listing a populated store
\* ------------------------------------------------------------------------

DigitChars == <<"0", "1", "2", "3", "4", "5", "6", "7", "8", "9">>

\* str(i)
RECURSIVE Digits(_)
Digits(i) ==
    IF i < 10 THEN <<DigitChars[i + 1]>>
    ELSE Digits(i \div 10) \o <<DigitChars[(i % 10) + 1]>>

\* the store after POST /categories has created categories "1", "2", ..., str(n)
Populated(n) ==
    [i \in 1..n |-> Category(i, CategoryCreate(Digits(i), <<>>), SlugDirect(Digits(i)))]

\* a server whose store holds n categories and that has one request left to serve
InitListing ==
    /\ \E n \in 0..MaxListed : store = Populated(n) /\ next_id = n + 1
    /\ agent_cache = [t \in AgentTags |-> 0]
    /\ constructed = [t \in AgentTypes |-> 0]
    /\ req = [r \in Reqs |-> IdleReq]
    /\ started = MaxRequests - 1
    /\ checked_len = [i \in 1..Len(store) |-> i - 1]
    /\ articles = <<>>

NextListing ==
    \E r \in Reqs :
        \/ \E msg \in {MsgList, MsgWhat} : admin_assistant_chat(r, msg)
        \/ \E db_ok \in BOOLEAN : ListReply(r, db_ok)
        \/ Deliver(r)

SpecListing == InitListing /\ [][NextListing]_vars

\* ------------------------------------------------------------------------
\* POST /articles
\* ------------------------------------------------------------------------

\* the slice bound of content[:2000]
SummaryLimit == 2000

\* an article body of n characters
ArticleContent(n) == [i \in 1..n |-> DigitChars[(i % 10) + 1]]

\* article bodies shorter than, as long as and longer than the slice
Contents ==
    {ArticleContent(n) : n \in {0, 3, SummaryLimit, SummaryLimit + 1, SummaryLimit + 7}}

\* content[:2000] without the slice
Truncate_Whole(content) == content

\* content[:2000]
Truncate(content) ==
    IF Len(content) <= SummaryLimit THEN content ELSE SubSeq(content, 1, SummaryLimit)

\* Article(**article_input.model_dump(), summary=summary); title, category, author,
\* image fields, counters and timestamps are left out (the summary code reads none)
Article(content, summary) == [content |-> content, summary |-> summary]

\* what _generate_summary returns once execute has completed
SummaryOf(result) ==
    IF result.raises THEN SummaryNotAvailable
    ELSE IF result.success THEN result.content
    ELSE SummaryFailed

\* the request arrives; _generate_summary obtains the chat agent (agent_ok: the
\* ChatAgent constructor, when it runs, does not raise) and awaits execute; when
\* the agent cannot be obtained the handler goes straight on to insert_one
create_article(r, content, agent_ok) ==
    /\ Free(r)
    /\ started < MaxRequests
    /\ started' = started + 1
    /\ UNCHANGED <<store, checked_len, next_id, articles>>
    /\ LET got == get_or_create_agent(agent_cache, constructed, "chat")
           base == [IdleReq EXCEPT !.handler = "create_article", !.content = content]
       IN  IF agent_cache["chat"] = 0 /\ ~agent_ok
           THEN /\ UNCHANGED <<agent_cache, constructed>>
                /\ req' = [req EXCEPT ![r] =
                             [base EXCEPT !.pc = "article_insert",
                                          !.raised = Some(DescAgentRaised),
                                          !.summary = SummaryNotAvailable]]
           ELSE /\ agent_cache' = got.cache
                /\ constructed' = got.made
                /\ req' = [req EXCEPT ![r] =
                             [base EXCEPT !.pc = "summary", !.agent = got.agent,
                                          !.prompt_text =
                                              SummaryPromptPrefix \o Truncate(content)]]

\* execute(prompt) completes; _generate_summary returns and the handler awaits
\* insert_one
SummaryReply(r, result) ==
    /\ req[r].pc = "summary"
    /\ UNCHANGED <<store, checked_len, next_id, agent_cache, constructed, started, articles>>
    /\ req' = [req EXCEPT ![r] =
                 [@ EXCEPT !.pc = "article_insert", !.prompt_text = <<>>,
                           !.results = Append(@, result),
                           !.raised = IF result.raises THEN Some(result.desc) ELSE None,
                           !.summary = SummaryOf(result)]]

\* insert_one completes; the handler returns the article
ArticleInsertReply(r, db_ok) ==
    /\ req[r].pc = "article_insert"
    /\ UNCHANGED <<store, checked_len, next_id, agent_cache, constructed, started>>
    /\ IF ~db_ok
       THEN /\ req' = [req EXCEPT ![r] =
                         [@ EXCEPT !.pc = "done", !.response = Unhandled(DescStoreRaised)]]
            /\ UNCHANGED articles
       ELSE /\ articles' = Append(articles, Article(req[r].content, req[r].summary))
            /\ req' = [req EXCEPT ![r] =
                         [@ EXCEPT !.pc = "done", !.inserts = @ + 1,
                                   !.response = Response("Article", TRUE, req[r].summary,
                                                         None, None, None, 200)]]

NextArticles ==
    \E r \in Reqs :
        \/ \E content \in Contents, agent_ok \in BOOLEAN : create_article(r, content, agent_ok)
        \/ \E result \in GeneralOutcomes : SummaryReply(r, result)
        \/ \E db_ok \in BOOLEAN : ArticleInsertReply(r, db_ok)
        \/ Deliver(r)

SpecArticles == Init /\ [][NextArticles]_vars

\* ------------------------------------------------------------------------
\* Properties
\* ------------------------------------------------------------------------

\* the requests of the admin assistant
Assistant(r) == req[r].handler = "admin_assistant_chat"

Finished(r) == Assistant(r) /\ req[r].pc = "done"

WordAlreadyExists ==
    <<"a","l","r","e","a","d","y"," ","e","x","i","s","t","s">>

WordRephrase ==
    <<"r","e","p","h","r","a","s","e">>

WordCreateOne ==
    <<"c","r","e","a","t","e"," ","o","n","e">>

\* C1: every invocation of the resolver ends by returning a well-formed
\* response object (a boolean success and a response text), whatever the
\* message and whatever the chat agent does; no path ends without a response.
C1_AlwaysWellFormedResponse ==
    \A r \in Reqs :
        Finished(r) =>
            /\ req[r].response.kind = "AdminAssistantResponse"
            /\ req[r].response.success \in BOOLEAN
            /\ req[r].response.response \in Seq(STRING)

\* the name each usable agent output stands for
ExpectedName(content) ==
    CASE content = JsonAb -> NameAb
      [] content = JsonPadded -> NameASpaceB
      [] content = JsonUnder -> NameAUnderB
      [] content = TextAb -> NameAb
      [] content = TextQuoted -> NameASpaceB
      [] content = TextLowerAb -> NameLowerAb
      [] OTHER -> <<>>

\* slug is name in lower case with every space and underscore turned into a hyphen
IsSlugOf(slug, name) ==
    /\ Len(slug) = Len(name)
    /\ \A i \in 1..Len(name) :
          slug[i] = IF name[i] \in {" ", "_"} THEN "-" ELSE LowerChar(name[i])

\* the agent output the request's category name was extracted from
ExtractedFrom(r) == req[r].results[Len(req[r].results)].content

\* C2: when extraction (stage 1 or stage 2) yields a usable name and the
\* existence check finds no category with the slug of that name, the resolver
\* inserts exactly one record, whose name is the extracted name and whose slug
\* is the lower-cased name with spaces and underscores replaced by hyphens, and
\* answers success with action_taken "create_category" and that record as
\* action_result.
C2_CreatesExtractedCategory ==
    \A r \in Reqs :
        ( /\ Finished(r)
          /\ req[r].existing = "absent"
          /\ req[r].raised = None
          /\ req[r].category_input[1].name # <<>> ) =>
            /\ req[r].inserts = 1
            /\ req[r].response.kind = "AdminAssistantResponse"
            /\ req[r].response.success
            /\ req[r].response.action_taken = Some("create_category")
            /\ Len(req[r].response.action_result) = 1
            /\ LET created == req[r].response.action_result[1].category
               IN  /\ Cardinality({i \in 1..Len(store) : store[i] = created}) = 1
                   /\ Cardinality({i \in 1..Len(store) : store[i].id = created.id}) = 1
                   /\ created.name = ExpectedName(ExtractedFrom(r))
                   /\ IsSlugOf(created.slug, created.name)

\* a stage-2 creation whose slug differs from its name
C2_Witness ==
    \E r \in Reqs :
        /\ Finished(r)
        /\ req[r].response.success
        /\ req[r].response.action_taken = Some("create_category")
        /\ Len(req[r].results) = 2
        /\ req[r].category_input[1].name = NameASpaceB

\* C3: when the computed slug already exists in the store (from either stage),
\* the resolver inserts nothing, answers success=false with a "category already
\* exists" message, and the store is the same after the step as before; so a
\* create repeated after it succeeded is rejected and leaves the store alone.
C3_ExistingSlugRejected ==
    [][\A r \in Reqs :
          ( /\ Assistant(r)
            /\ req[r].pc \in {"find1", "find2"}
            /\ req'[r].pc # req[r].pc
            /\ req'[r].raised = None
            /\ \E i \in 1..Len(store) : store[i].slug = req[r].slug ) =>
              /\ store' = store
              /\ req'[r].pc = "done"
              /\ req'[r].inserts = 0
              /\ req'[r].response.kind = "AdminAssistantResponse"
              /\ ~req'[r].response.success
              /\ Contains(WordAlreadyExists, req'[r].response.response)
              /\ req'[r].response.action_taken = None]_vars

\* a create repeated with the name of a stored category was rejected
C3_Witness ==
    \E r \in Reqs :
        /\ Finished(r)
        /\ req[r].existing = "found"
        /\ ~req[r].response.success
        /\ \E i \in 1..Len(store) : store[i].name = req[r].category_input[1].name
        /\ req[r].inserts = 0

\* every character of s is white space
IsBlank(s) == \A i \in 1..Len(s) : s[i] \in Whitespace

IsValidJson(content) == JsonLoads(Strip(content)).ok

\* C4: the stage-2 prompt is issued only after the stage-1 response failed to
\* parse as JSON; the "please rephrase" failure is reported only after stage 2
\* was attempted and returned success=false or a blank string; that failure is
\* final (no third agent call, no category write) and asks to rephrase.
C4_FallbackOrder ==
    \A r \in Reqs :
        Assistant(r) =>
            /\ Len(req[r].prompts) <= 2
            /\ (\E i \in 1..Len(req[r].prompts) : req[r].prompts[i] = "simple_prompt") =>
                  /\ req[r].prompts = <<"extraction_prompt", "simple_prompt">>
                  /\ Len(req[r].results) >= 1
                  /\ ~req[r].results[1].raises
                  /\ req[r].results[1].success
                  /\ ~IsValidJson(req[r].results[1].content)
            /\ req[r].response.error = Some(ErrParse) =>
                  /\ req[r].pc = "done"
                  /\ req[r].prompts = <<"extraction_prompt", "simple_prompt">>
                  /\ Len(req[r].results) = 2
                  /\ ~req[r].results[2].raises
                  /\ ~req[r].results[2].success \/ IsBlank(req[r].results[2].content)
                  /\ req[r].inserts = 0
                  /\ req[r].existing = "unchecked"
                  /\ ~req[r].response.success
                  /\ Contains(WordRephrase, req[r].response.response)

\* stage 2 succeeded with a blank string and the request ended in "please rephrase"
C4_Witness ==
    \E r \in Reqs :
        /\ Finished(r)
        /\ req[r].response.error = Some(ErrParse)
        /\ req[r].results[2].success

\* w occurs in msg, letter case ignored
HasWord(msg, w) ==
    \E k \in 1..(Len(msg) - Len(w) + 1) :
        \A j \in 1..Len(w) : LowerChar(msg[k + j - 1]) = w[j]

\* the pipeline a handler position belongs to
PipelineAt(pc) ==
    CASE pc \in {"stage1", "find1", "insert1", "stage2", "find2", "insert2"} -> "CreateCategory"
      [] pc = "list" -> "ListCategories"
      [] pc = "general" -> "General"
      [] OTHER -> "none"

\* C5: classification is a case-insensitive function of the message in fixed
\* priority order: CreateCategory when it contains "create" and "categor", even
\* with "list", "show" or "what" present; otherwise ListCategories when it
\* contains "categor" and one of "list", "show", "what"; otherwise General;
\* exactly one pipeline runs.
C5_ClassificationPriority ==
    \A r \in Reqs :
        (Assistant(r) /\ req[r].pc \in {"stage1", "list", "general"}) =>
            LET m == req[r].message
                verb == HasWord(m, KwList) \/ HasWord(m, KwShow) \/ HasWord(m, KwWhat)
                expected ==
                    IF HasWord(m, KwCreate) /\ HasWord(m, KwCategor) THEN "CreateCategory"
                    ELSE IF HasWord(m, KwCategor) /\ verb THEN "ListCategories"
                    ELSE "General"
            IN  /\ PipelineAt(req[r].pc) = expected
                /\ req[r].prompts # <<>> =>
                      req[r].prompts[1] = (IF expected = "CreateCategory"
                                           THEN "extraction_prompt" ELSE "enhanced_message")
                /\ expected = "ListCategories" => req[r].prompts = <<>> /\ req[r].agent = 0

\* a message with a listing verb and "create" runs the CreateCategory pipeline
C5_Witness ==
    \E r \in Reqs :
        /\ Assistant(r)
        /\ req[r].message = MsgShowCreate
        /\ req[r].pc = "stage1"

\* C6, as claimed: in every reachable state, whatever the interleaving of the
\* create requests of both endpoints, no two stored categories share a slug.
C6_UniqueSlugs ==
    \A i, j \in 1..Len(store) : i # j => store[i].slug # store[j].slug

\* C6, amended: two stored categories share a slug only when the later one was
\* inserted by a request whose existence check ran before the earlier one was
\* stored; requests whose check and insert do not overlap keep slugs unique.
C6_DuplicateOnlyByOverlap ==
    \A i, j \in 1..Len(store) :
        (i < j /\ store[i].slug = store[j].slug) => checked_len[j] < i

\* two categories created one after the other, the second checked against the first
C6_Witness ==
    /\ Len(store) = 2
    /\ checked_len[2] = 1
    /\ store[1].slug # store[2].slug

\* the agent type a request asks the registry for
AgentTypeOf(q) == IF q.handler = "chat_with_agent" THEN q.intent ELSE "chat"

\* C7: per agent type at most one instance is ever constructed; a cache entry,
\* once present, is never replaced or evicted; every handler holds the cached
\* instance of its type.
C7_SingleInstance ==
    [][\A t \in AgentTypes :
          /\ constructed'[t] <= 1
          /\ agent_cache[t] # 0 => agent_cache'[t] = agent_cache[t]
          /\ \A r \in Reqs :
                (req'[r].agent # 0 /\ AgentTypeOf(req'[r]) = t) =>
                    req'[r].agent = agent_cache'[t]]_vars

\* two handlers in flight hold the same chat agent instance
C7_Witness ==
    /\ req[1].agent # 0
    /\ req[1].agent = req[2].agent
    /\ constructed["chat"] = 1
    /\ AgentTypeOf(req[1]) = "chat"
    /\ AgentTypeOf(req[2]) = "chat"

\* a finished ListCategories request whose fetch did not raise
Listed(r) == Finished(r) /\ req[r].intent = "ListCategories" /\ req[r].raised = None

InFirstPage(docs, i) ==
    Cardinality({j \in 1..Len(docs) : StrLess(docs[j].name, docs[i].name)}) < ToListLength

C9_AgentFailurePropagates ==
    \A r \in Reqs :
        Finished(r) =>
            /\ (\E i \in 1..Len(req[r].results) :
                    ~req[r].results[i].raises /\ ~req[r].results[i].success) =>
                  /\ req[r].response.kind = "AdminAssistantResponse"
                  /\ ~req[r].response.success
                  /\ req[r].inserts = 0
            /\ (req[r].intent = "General" /\ ~req[r].results[1].raises) =>
                  /\ req[r].response.kind = "AdminAssistantResponse"
                  /\ req[r].response.success = req[r].results[1].success
                  /\ req[r].response.response = req[r].results[1].content
                  /\ req[r].response.error = req[r].results[1].error

\* the description of the exception each failing step raises
ExpectedDescription(r) ==
    LET last == req[r].results[Len(req[r].results)]
    IN  IF req[r].results # <<>> /\ last.raises THEN Some(last.desc)
        ELSE IF req[r].results # <<>> /\ last.success /\ last.content = JsonArray
        THEN Some(DescListGet)
        ELSE IF req[r].results # <<>> /\ last.success /\ last.content = JsonNullName
        THEN Some(DescNoneStrip)
        ELSE req[r].raised

\* C10: an exception raised in the resolver during extraction, a persistence
\* call or an agent invocation (stage-1 content that is JSON but no object, or
\* whose name is no string, included) becomes a response with success=false, the
\* fixed apology as text and the exception's description as error; the
\* description never appears in the text.
C10_ExceptionBecomesApology ==
    \A r \in Reqs :
        (Finished(r) /\ ExpectedDescription(r) # None) =>
            /\ req[r].response.kind = "AdminAssistantResponse"
            /\ ~req[r].response.success
            /\ req[r].response.response = ApologyText
            /\ req[r].response.error = ExpectedDescription(r)
            /\ req[r].response.error[1] # <<>>
            /\ ~Contains(req[r].response.error[1], req[r].response.response)
            /\ req[r].response.action_taken = None
            /\ req[r].response.action_result = None

\* stage-1 content that is a JSON array ended in the apology
C10_Witness ==
    \E r \in Reqs :
        /\ Finished(r)
        /\ req[r].results[1].success
        /\ req[r].results[1].content = JsonArray
        /\ req[r].response.response = ApologyText

\* C11: the resolver goes on to the existence check and the insert only with a
\* usable name: no category written by the resolver has an empty name or an
\* empty slug, whether the name came from stage 1 or from stage 2.
C11_NoEmptyNameWritten ==
    \A r \in Reqs :
        (Assistant(r) /\ req[r].inserts >= 1) =>
            /\ \A i \in 1..Len(store) :
                  store[i].id = req[r].category[1].id =>
                      store[i].name # <<>> /\ store[i].slug # <<>>
            /\ req[r].category[1].name # <<>>
            /\ req[r].category[1].slug # <<>>

\* C12: one resolver request performs at most one insert into the category
\* store on every path; a request that falls back to stage 2 has written
\* nothing in stage 1, and a request that wrote in stage 1 issues no stage-2
\* prompt.
C12_AtMostOneInsert ==
    \A r \in Reqs :
        Assistant(r) =>
            /\ req[r].inserts <= 1
            /\ req[r].pc \in {"stage2", "find2", "insert2"} => req[r].inserts = 0
            /\ (req[r].inserts = 1 /\ Len(req[r].results) = 1) =>
                  req[r].prompts = <<"extraction_prompt">>
            /\ req[r].inserts = 1 =>
                  Cardinality({i \in 1..Len(store) : store[i].id = req[r].category[1].id}) = 1

\* a request that fell back to stage 2 has made its one insert
C12_Witness ==
    \E r \in Reqs :
        /\ Finished(r)
        /\ req[r].prompts = <<"extraction_prompt", "simple_prompt">>
        /\ req[r].inserts = 1
        /\ Len(store) >= 1

ArticleRequest(r) == req[r].handler = "create_article"

\* the summary step of request r has ended in a failure: the agent could not be
\* obtained, execute raised, or execute returned success=false
SummaryFailure(r) ==
    /\ ArticleRequest(r)
    /\ req[r].pc \in {"article_insert", "done"}
    /\ \/ req[r].raised # None
       \/ \E i \in 1..Len(req[r].results) : ~req[r].results[i].success

\* the prompt of request r is the instruction followed by the first 2000
\* characters of the article body
PromptTruncated(r) ==
    LET k == Len(SummaryPromptPrefix)
        n == Len(req[r].content)
        m == IF n < SummaryLimit THEN n ELSE SummaryLimit
    IN  /\ Len(req[r].prompt_text) = k + m
        /\ SubSeq(req[r].prompt_text, 1, k) = SummaryPromptPrefix
        /\ \A i \in 1..m : req[r].prompt_text[k + i] = req[r].content[i]

\* the article of request r is in db.articles with the summary the request computed
ArticleStored(r) ==
    \E i \in 1..Len(articles) : articles[i] = Article(req[r].content, req[r].summary)

\* the summary step never stops article creation: the only failure a finished
\* article request reports is the store's own, and a request that is answered
\* with the article has stored it
CreationNotBlocked(r) ==
    (ArticleRequest(r) /\ req[r].pc = "done") =>
        IF req[r].response.kind = "Exception"
        THEN req[r].response.response = DescStoreRaised /\ req[r].inserts = 0
        ELSE /\ req[r].response.kind = "Article"
             /\ req[r].response.response = req[r].summary
             /\ req[r].inserts = 1
             /\ ArticleStored(r)

\* C13 (as stated): the summary generator never raises and does not block
\* article creation; on every failure of the chat agent (success=false, an
\* exception from execute, no agent obtained) the summary is the one fallback
\* "Summary not available", and the prompt carries only the first 2000
\* characters of the content.
C13_OneFixedFallback ==
    \A r \in Reqs :
        /\ (ArticleRequest(r) /\ req[r].pc = "summary") => PromptTruncated(r)
        /\ SummaryFailure(r) => Contains(StripChars(SummaryNotAvailable, {"."}), req[r].summary)
        /\ CreationNotBlocked(r)

\* C13 (amended): the summary generator never raises and does not block article
\* creation; when execute raises or no agent is obtained the summary is
\* "Summary not available.", when execute returns success=false it is
\* "Summary generation failed.", on success it is the agent's content; the
\* prompt carries only the first 2000 characters of the content.
C13_FallbackPerFailure ==
    \A r \in Reqs :
        /\ (ArticleRequest(r) /\ req[r].pc = "summary") => PromptTruncated(r)
        /\ (ArticleRequest(r) /\ req[r].pc \in {"article_insert", "done"}) =>
              req[r].summary =
                  IF req[r].raised # None THEN SummaryNotAvailable
                  ELSE IF req[r].results[1].success THEN req[r].results[1].content
                  ELSE SummaryFailed
        /\ CreationNotBlocked(r)

\* an article longer than the slice, whose summary the agent failed to produce,
\* has been stored with the failure text
C13_Witness ==
    \E r \in Reqs :
        /\ ArticleRequest(r)
        /\ req[r].pc = "done"
        /\ Len(req[r].content) > SummaryLimit
        /\ req[r].results = <<AgentFailure>>
        /\ req[r].summary = SummaryFailed
        /\ ArticleStored(r)

ChatRequest(r) == req[r].handler = "chat_with_agent"

\* the step on which request r enters chat_with_agent with a tag that is
\* neither "chat" nor "search"
UnknownTagArrives(r) ==
    /\ req[r].pc = "idle"
    /\ req'[r].handler = "chat_with_agent"
    /\ req'[r].intent \notin AgentTypes

\* C14: obtaining an agent for a tag other than "chat" or "search" fails with
\* HTTP 400, which the chat endpoint hands to its client as that client error
\* (not a 500, not a ChatResponse with success=false); no agent is constructed,
\* no execute is issued, no cache entry is added for the tag and the existing
\* entries stay as they were.
C14_UnknownTagIsClientError ==
    [][\A r \in Reqs :
          UnknownTagArrives(r) =>
              /\ req'[r].pc = "done"
              /\ req'[r].response = HTTPException(400, DetailUnknownBogus)
              /\ req'[r].response.kind = "HTTPException"
              /\ req'[r].response.status = 400
              /\ req'[r].agent = 0
              /\ req'[r].prompts = <<>>
              /\ constructed' = constructed
              /\ agent_cache' = agent_cache
              /\ agent_cache'[req'[r].intent] = 0]_vars

\* a request with the unknown tag has been refused while the cache holds a chat
\* agent
C14_Witness ==
    \E r \in Reqs :
        /\ ChatRequest(r)
        /\ req[r].pc = "done"
        /\ req[r].intent = "bogus"
        /\ req[r].response.status = 400
        /\ agent_cache["chat"] # 0
        /\ agent_cache["bogus"] = 0

DirectRequest(r) == req[r].handler = "create_category"

\* request r, of either path, has finished a create whose existence check ran
\* and whose store calls all succeeded
CreateSettled(r) ==
    /\ DirectRequest(r) \/ Assistant(r)
    /\ req[r].pc = "done"
    /\ req[r].existing # "unchecked"
    /\ req[r].raised = None

\* the name request r submitted for the new category
SubmittedName(r) == req[r].category_input[1].name

\* the store read by request r's existence check holds a record whose slug is
\* the slug of the submitted name
SlugTaken(r) ==
    \E i \in 1..Len(req[r].seen[1]) : IsSlugOf(req[r].seen[1][i].slug, SubmittedName(r))

\* request r was refused in the form of its path
Rejected(r) ==
    IF DirectRequest(r)
    THEN /\ req[r].response.kind = "HTTPException"
         /\ req[r].response.status = 400
         /\ Contains(WordAlreadyExists, req[r].response.response)
    ELSE /\ req[r].response.kind = "AdminAssistantResponse"
         /\ req[r].response.success = FALSE
         /\ Contains(WordAlreadyExists, req[r].response.response)

\* C15: with requests handled one at a time, a create through the direct
\* endpoint or through the resolver is rejected (HTTP 400 "already exists" on
\* the direct path, success=false on the resolver path) exactly when the store
\* holds a record whose slug is the slug of the submitted name, whichever path
\* stored that record; otherwise it inserts one record with that slug, so no
\* two stored categories share a slug.
C15_SameRuleOnBothPaths ==
    /\ \A i, j \in 1..Len(store) : i # j => store[i].slug # store[j].slug
    /\ \A r \in Reqs :
          CreateSettled(r) =>
              /\ Rejected(r) <=> SlugTaken(r)
              /\ SlugTaken(r) => req[r].inserts = 0 /\ store = req[r].seen[1]
              /\ ~SlugTaken(r) =>
                    /\ req[r].inserts = 1
                    /\ Len(store) = Len(req[r].seen[1]) + 1
                    /\ SubSeq(store, 1, Len(req[r].seen[1])) = req[r].seen[1]
                    /\ store[Len(store)].name = SubmittedName(r)
                    /\ IsSlugOf(store[Len(store)].slug, SubmittedName(r))
                    /\ ~Rejected(r)

\* the direct endpoint has refused "a_b" because of the record "a b", which only
\* the resolver can have stored
C15_Witness ==
    \E r \in Reqs :
        /\ DirectRequest(r)
        /\ CreateSettled(r)
        /\ SubmittedName(r) = NameAUnderB
        /\ Rejected(r)
        /\ Len(store) = 1
        /\ store[1].name = NameASpaceB

\* the response is the successful outcome of the CreateCategory pipeline
CreatedOutcome(response) ==
    /\ response.kind = "AdminAssistantResponse"
    /\ response.success
    /\ response.action_taken = Some("create_category")

\* C16: a step of a resolver request changes the category store exactly when
\* it ends the request in a successful CreateCategory outcome, and then by
\* appending the one created record; a request that ends in the list pipeline,
\* the general pipeline, "already exists", "please rephrase" or the apology has
\* written nothing; a ListCategories request issues no agent call and neither
\* reads nor fills the agent cache.
C16_OnlyCreatedChangesStore ==
    [][\A r \in Reqs :
          (req'[r] # req[r] /\ req'[r].handler = "admin_assistant_chat") =>
              /\ store' # store <=>
                    (req'[r].pc = "done" /\ CreatedOutcome(req'[r].response))
              /\ store' # store => store' = Append(store, req'[r].category[1])
              /\ (req'[r].pc = "done" /\ ~CreatedOutcome(req'[r].response)) =>
                    req'[r].inserts = 0
              /\ req'[r].intent = "ListCategories" =>
                    /\ agent_cache' = agent_cache
                    /\ constructed' = constructed
                    /\ req'[r].prompts = <<>>
                    /\ req'[r].results = <<>>
                    /\ req'[r].agent = 0]_vars

\* with a category stored, a list request has been answered: the store is as
\* the request read it and no agent has been constructed or cached
C16_Witness ==
    \E r \in Reqs :
        /\ Finished(r)
        /\ req[r].intent = "ListCategories"
        /\ req[r].response.action_taken = Some("list_categories")
        /\ Len(store) >= 1
        /\ store = req[r].seen[1]
        /\ \A t \in AgentTypes : agent_cache[t] = 0 /\ constructed[t] = 0

====
